---- MODULE Spec2Model ----
(***************************************************************************)
(* SNO: cursor-based pattern matching primitives (src/src/SNO/sno.c, the   *)
(* current version, lines 86-244, and src/src/SNO/sno.h).                  *)
(*                                                                         *)
(* Pointers are offsets into the memory the bound text lives in: offset 0  *)
(* is the first character, the terminator is at offset `length`, and the   *)
(* bytes after the terminator belong to whatever the build placed there.   *)
(* A read past the terminator is undefined behaviour: its result is the    *)
(* arbitrary byte chosen when the text was bound.  Reads beyond the        *)
(* modelled bytes are cut off (the call is not taken).                     *)
(***************************************************************************)
EXTENDS Integers, Sequences, FiniteSets, TLC

MaxLen  == 1      \* longest subject text enumerated in full
MaxOver == 1      \* modelled bytes after the terminator
MaxBuf  == 2      \* largest destination capacity passed to var/cap/len_var
MaxAcc  == 3      \* capture scenario: most characters matched after one sno_mark
SizeBits == 16    \* width of size_t in the model (the C minimum)

NUL  == "NUL"     \* the byte '\0'
NULL == <<>>      \* a null pointer; a valid pointer to x is <<x>>
Ptr(x) == <<x>>

TextChar == {"a", "(", ")"}
Char     == TextChar \cup {NUL}

SeqsUpTo(S, n) == UNION {[1..k -> S] : k \in 0..n}

\* Longer subjects with nested and embedded groups.
NestedTexts == { <<"a", "a">>, <<"(", ")">>, <<"(", "(">>,
                 <<"(", "a", ")">>, <<"(", "(", "a">>,
                 <<"(", "(", ")", ")">>, <<"a", "(", ")", "a">> }

Texts == SeqsUpTo(TextChar, MaxLen) \cup NestedTexts
\* Bytes found after the terminator: MaxOver copies of one byte.
TailChar == {NUL, "a", ")"}
Tails == {[i \in 1..MaxOver |-> c] : c \in TailChar}

\* The memory a C string `text` occupies, with the bytes that follow it.
Memory(text, tail) == text \o <<NUL>> \o tail
\* Short texts are followed by every tail, the longer ones by zero bytes.
Memories ==
  {Memory(t, g) : t \in SeqsUpTo(TextChar, MaxLen), g \in Tails}
    \cup {Memory(t, [i \in 1..MaxOver |-> NUL]) : t \in NestedTexts}
\* Texts a later sno_bind switches to (every memory is a first bind already).
RebindMemories == {Memory(t, [i \in 1..MaxOver |-> NUL]) : t \in {<<>>, <<"a">>, <<")", "a">>}}

SizeMod == 2 ^ SizeBits
\* size_t arithmetic: (size_t)(a - b)
SizeSub(a, b) == (a - b) % SizeMod
\* pointer + size_t: the address moves modulo 2^w; an offset is read relative
\* to str.begin, so a wrapped sum lands before the pointer it started from.
PtrAdd(p, n) ==
  LET a == (p + n) % SizeMod IN IF a >= SizeMod \div 2 THEN a - SizeMod ELSE a

\* Argument domains
CharArgs == Char
SetArgs  == {NULL, Ptr(<<>>), Ptr(<<"a">>), Ptr(<<"(", ")">>), Ptr(<<"a", ")">>)}
NArgs    == (0..(MaxLen + 2)) \cup {SizeMod - 1}
BufLens  == 0..MaxBuf
BufArgs  == {NULL, Ptr("buf")}

VARIABLES
  mem,      \* bytes at and after the bound pointer (str.begin = offset 0)
  s,        \* the sno_subject_t: str, view, mark, length
  op,       \* the name of the call just made
  exit,     \* the line of sno.c whose return statement ended it (for a
            \* composed expression: which primitive of the sequence failed)
  ret,      \* its return value
  written,  \* the bytes it stored into the destination buffer
  pc,       \* the example program being run and its next statement
  bufs,     \* the example program's character arrays
  acc,      \* capture scenario: the views of the successful matches since the
            \* last sno_mark, one after the other
  s2,       \* a second sno_subject_t, bound to the same text as s
  frames    \* the sno_bal calls in progress, the outermost first: each with
            \* its arguments, its local `start` and the line it is at

vars == <<mem, s, op, exit, ret, written, pc, bufs, acc, s2, frames>>

----------------------------------------------------------------------------
(* Helpers *)

\* strchr(set, c) != NULL: c occurs in the C string `set`, whose terminator
\* is part of the string searched.
strchr(set, c) == c = NUL \/ \E i \in 1..Len(set) : set[i] = c

\* while(*s->str.end++ != '\0');  -- offset one past the first NUL at or after p
RECURSIVE ScanTerminator(_, _)
ScanTerminator(m, p) == IF m[p + 1] = NUL THEN p + 1 ELSE ScanTerminator(m, p + 1)

InMem(p) == p >= 0 /\ p < Len(mem)

\* Result of a call: the line it returned at, the value returned, the context
\* afterwards, the bytes stored in the destination, and whether a byte
\* outside the modelled memory was read.
Res(line, r, sp, out) == [exit |-> line, ret |-> r, sp |-> sp, out |-> out, oob |-> FALSE]
Fail(line, sp) == Res(line, FALSE, sp, <<>>)
Ok(line, sp) == Res(line, TRUE, sp, <<>>)
OutOfModel(sp) == [exit |-> 0, ret |-> FALSE, sp |-> sp, out |-> <<>>, oob |-> TRUE]

SetView(sv, b, e) == [sv EXCEPT !.view = [begin |-> b, end |-> e]]

----------------------------------------------------------------------------
(* The primitives *)

\* Variant: s->mark left out of the chain of assignments.
sno_bind_keepmark(sp, cp) ==
  IF sp # NULL /\ cp # NULL
  THEN LET e == ScanTerminator(cp[1], 0) IN
       Ptr([str    |-> [begin |-> 0, end |-> e],
            view   |-> [begin |-> 0, end |-> 0],
            mark   |-> sp[1].mark,
            length |-> e - 0 - 1])
  ELSE sp

sno_bind(sp, cp) ==
  IF sp # NULL /\ cp # NULL
  THEN LET e == ScanTerminator(cp[1], 0) IN
       Ptr([str    |-> [begin |-> 0, end |-> e],
            view   |-> [begin |-> 0, end |-> 0],
            mark   |-> 0,
            length |-> e - 0 - 1])
  ELSE sp

\* Variant: s->view.begin = s->view.end = s->str.begin;  (mark not reset)
sno_reset_keepmark(sp) ==
  IF sp = NULL THEN Fail(101, sp)
  ELSE LET sv == sp[1] IN Ok(103, Ptr(SetView(sv, sv.str.begin, sv.str.begin)))

sno_reset(sp) ==
  IF sp = NULL THEN Fail(101, sp)
  ELSE LET sv == sp[1] IN
       Ok(103, Ptr([SetView(sv, sv.str.begin, sv.str.begin) EXCEPT !.mark = sv.str.begin]))

\* Variant: cstr_t* pos = s->view.end++;  (cursor moved before the comparison)
sno_lit_postinc(sp, ch) ==
  IF sp = NULL THEN Fail(107, sp)
  ELSE LET sv == sp[1]
           pos == sv.view.end IN
       IF ~InMem(pos) THEN OutOfModel(sp)
       ELSE IF mem[pos + 1] # ch THEN Fail(109, Ptr([sv EXCEPT !.view.end = pos + 1]))
       ELSE Ok(112, Ptr(SetView(sv, pos, pos + 1)))

sno_lit(sp, ch) ==
  IF sp = NULL THEN Fail(107, sp)
  ELSE LET sv == sp[1]
           pos == sv.view.end IN
       IF ~InMem(pos) THEN OutOfModel(sp)
       ELSE IF mem[pos + 1] # ch THEN Fail(109, sp)
       ELSE Ok(112, Ptr(SetView(sv, sv.view.end, pos + 1)))

\* Variant: no `s->view.begin = s->view.end;` before the cursor moves.
sno_len_nobegin(sp, n) ==
  IF sp = NULL THEN Fail(116, sp)
  ELSE LET sv == sp[1]
           pos == PtrAdd(sv.view.end, n) IN
       IF pos < 0 THEN OutOfModel(sp)
       ELSE IF pos >= sv.str.end THEN Fail(118, sp)
       ELSE Ok(121, Ptr([sv EXCEPT !.view.end = pos]))

sno_len(sp, n) ==
  IF sp = NULL THEN Fail(116, sp)
  ELSE LET sv == sp[1]
           pos == PtrAdd(sv.view.end, n) IN
       IF pos < 0 THEN OutOfModel(sp)
       ELSE IF pos >= sv.str.end THEN Fail(118, sp)
       ELSE Ok(121, Ptr(SetView(sv, sv.view.end, pos)))

\* Variant: if(*pos && strchr(set, *pos)) pos++;  (one character, not the run)
SpanScan_once(set, pos) ==
  IF InMem(pos) /\ mem[pos + 1] # NUL /\ strchr(set, mem[pos + 1]) THEN pos + 1 ELSE pos

\* while(*pos && strchr(set, *pos)) pos++;   (stops at the model's edge)
RECURSIVE SpanScan(_, _)
SpanScan(set, pos) ==
  IF InMem(pos) /\ mem[pos + 1] # NUL /\ strchr(set, mem[pos + 1])
  THEN SpanScan(set, pos + 1) ELSE pos

\* while(*pos && !strchr(set, *pos)) pos++;
RECURSIVE BreakScan(_, _)
BreakScan(set, pos) ==
  IF InMem(pos) /\ mem[pos + 1] # NUL /\ ~strchr(set, mem[pos + 1])
  THEN BreakScan(set, pos + 1) ELSE pos

\* Variant: view.begin assigned before the zero-length test.
sno_span_early(sp, setp) ==
  IF sp = NULL \/ setp = NULL THEN Fail(125, sp)
  ELSE LET sv == sp[1]
           start == sv.view.end
           pos == SpanScan(setp[1], start) IN
       IF ~InMem(pos) THEN OutOfModel(sp)
       ELSE IF pos = start THEN Fail(129, Ptr(SetView(sv, start, start)))
       ELSE Ok(132, Ptr(SetView(sv, start, pos)))

sno_span(sp, setp) ==
  IF sp = NULL \/ setp = NULL THEN Fail(125, sp)
  ELSE LET sv == sp[1]
           start == sv.view.end
           pos == SpanScan(setp[1], start) IN
       IF ~InMem(pos) THEN OutOfModel(sp)
       ELSE IF pos = start THEN Fail(129, sp)
       ELSE Ok(132, Ptr(SetView(sv, start, pos)))

\* Variant: the zero-length test of sno_span copied into sno_break.
sno_break_nonempty(sp, setp) ==
  IF sp = NULL \/ setp = NULL THEN Fail(136, sp)
  ELSE LET sv == sp[1]
           start == sv.view.end
           pos == BreakScan(setp[1], start) IN
       IF ~InMem(pos) THEN OutOfModel(sp)
       ELSE IF pos = start THEN Fail(143, sp)
       ELSE Ok(143, Ptr(SetView(sv, start, pos)))

sno_break(sp, setp) ==
  IF sp = NULL \/ setp = NULL THEN Fail(136, sp)
  ELSE LET sv == sp[1]
           start == sv.view.end
           pos == BreakScan(setp[1], start) IN
       IF ~InMem(pos) THEN OutOfModel(sp)
       ELSE Ok(143, Ptr(SetView(sv, start, pos)))

\* memcpy(buf, from, len); buf[len] = '\0';
Copy(from, len) == [i \in 1..len |-> mem[from + i]] \o <<NUL>>

\* Variant: if(len > buflen) return false;  (no room kept for the terminator)
sno_var_offbyone(sp, buf, buflen) ==
  IF sp = NULL \/ buf = NULL \/ buflen = 0 THEN Fail(147, sp)
  ELSE LET sv == sp[1]
           len == SizeSub(sv.view.end, sv.view.begin) IN
       IF len > buflen THEN Fail(149, sp)
       ELSE Res(152, TRUE, sp, Copy(sv.view.begin, len))

sno_var(sp, buf, buflen) ==
  IF sp = NULL \/ buf = NULL \/ buflen = 0 THEN Fail(147, sp)
  ELSE LET sv == sp[1]
           len == SizeSub(sv.view.end, sv.view.begin) IN
       IF len >= buflen THEN Fail(149, sp)
       ELSE Res(152, TRUE, sp, Copy(sv.view.begin, len))

\* Variant: no `s->view = v;` before the final return.
sno_len_var_norollback(sp, n, buf, buflen) ==
  IF sp = NULL THEN Fail(156, sp)
  ELSE LET r1 == sno_len(sp, n) IN
       IF ~r1.ret THEN Fail(158, r1.sp)
       ELSE LET r2 == sno_var(r1.sp, buf, buflen) IN
            IF r2.ret THEN Res(159, TRUE, r2.sp, r2.out)
            ELSE Fail(161, r2.sp)

sno_len_var(sp, n, buf, buflen) ==
  IF sp = NULL THEN Fail(156, sp)
  ELSE LET v == sp[1].view
           r1 == sno_len(sp, n) IN
       IF ~r1.ret THEN Fail(158, r1.sp)
       ELSE LET r2 == sno_var(r1.sp, buf, buflen) IN
            IF r2.ret THEN Res(159, TRUE, r2.sp, r2.out)
            ELSE Fail(161, Ptr([r2.sp[1] EXCEPT !.view = v]))

\* Variant: s->mark = s->view.begin;
sno_mark_begin(sp) ==
  IF sp = NULL THEN Fail(165, sp)
  ELSE Ok(167, Ptr([sp[1] EXCEPT !.mark = sp[1].view.begin]))

sno_mark(sp) ==
  IF sp = NULL THEN Fail(165, sp)
  ELSE Ok(167, Ptr([sp[1] EXCEPT !.mark = sp[1].view.end]))

\* The mark is an offset here, so `!s->mark` (a null mark) cannot hold once a
\* text is bound.
sno_cap(sp, buf, buflen) ==
  IF sp = NULL \/ buf = NULL \/ buflen = 0 THEN Fail(171, sp)
  ELSE LET sv == sp[1]
           len == SizeSub(sv.view.end, sv.mark) IN
       IF len >= buflen THEN Fail(173, sp)
       ELSE IF sv.mark + len > Len(mem) THEN OutOfModel(sp)
       ELSE Res(176, TRUE, sp, Copy(sv.mark, len))

\* Variant: if (!strchr(set, *pos)) return false;  (no end-of-text test)
sno_any_noguard(sp, setp) ==
  IF sp = NULL \/ setp = NULL THEN Fail(180, sp)
  ELSE LET sv == sp[1]
           pos == sv.view.end IN
       IF ~InMem(pos) THEN OutOfModel(sp)
       ELSE IF ~strchr(setp[1], mem[pos + 1]) THEN Fail(182, sp)
       ELSE Ok(185, Ptr(SetView(sv, pos, pos + 1)))

sno_any(sp, setp) ==
  IF sp = NULL \/ setp = NULL THEN Fail(180, sp)
  ELSE LET sv == sp[1]
           pos == sv.view.end IN
       IF ~InMem(pos) THEN OutOfModel(sp)
       ELSE IF mem[pos + 1] = NUL \/ ~strchr(setp[1], mem[pos + 1]) THEN Fail(182, sp)
       ELSE Ok(185, Ptr(SetView(sv, pos, pos + 1)))

\* Variant: s->view.begin = s->view.end = pos;  (the character is not consumed)
sno_notany_noadvance(sp, setp) ==
  IF sp = NULL \/ setp = NULL THEN Fail(189, sp)
  ELSE LET sv == sp[1]
           pos == sv.view.end IN
       IF ~InMem(pos) THEN OutOfModel(sp)
       ELSE IF mem[pos + 1] = NUL \/ strchr(setp[1], mem[pos + 1]) THEN Fail(191, sp)
       ELSE Ok(194, Ptr(SetView(sv, pos, pos)))

\* Variant: if (!*pos || !strchr(set, *pos)) return false;  (the test of sno_any)
sno_notany_inverted(sp, setp) ==
  IF sp = NULL \/ setp = NULL THEN Fail(189, sp)
  ELSE LET sv == sp[1]
           pos == sv.view.end IN
       IF ~InMem(pos) THEN OutOfModel(sp)
       ELSE IF mem[pos + 1] = NUL \/ ~strchr(setp[1], mem[pos + 1]) THEN Fail(191, sp)
       ELSE Ok(194, Ptr(SetView(sv, pos, pos + 1)))

sno_notany(sp, setp) ==
  IF sp = NULL \/ setp = NULL THEN Fail(189, sp)
  ELSE LET sv == sp[1]
           pos == sv.view.end IN
       IF ~InMem(pos) THEN OutOfModel(sp)
       ELSE IF mem[pos + 1] = NUL \/ strchr(setp[1], mem[pos + 1]) THEN Fail(191, sp)
       ELSE Ok(194, Ptr(SetView(sv, pos, pos + 1)))

\* Variant: if (n <= cur || n > s->length) return false;
sno_tab_strict(sp, n) ==
  IF sp = NULL THEN Fail(198, sp)
  ELSE LET sv == sp[1]
           cur == SizeSub(sv.view.end, sv.str.begin) IN
       IF n <= cur \/ n > sv.length THEN Fail(200, sp)
       ELSE Ok(203, Ptr(SetView(sv, sv.view.end, sv.str.begin + n)))

sno_tab(sp, n) ==
  IF sp = NULL THEN Fail(198, sp)
  ELSE LET sv == sp[1]
           cur == SizeSub(sv.view.end, sv.str.begin) IN
       IF n < cur \/ n > sv.length THEN Fail(200, sp)
       ELSE Ok(203, Ptr(SetView(sv, sv.view.end, sv.str.begin + n)))

\* Variant: if (target <= cur) return false;
sno_rtab_strict(sp, n) ==
  IF sp = NULL THEN Fail(208, sp)
  ELSE IF n > sp[1].length THEN Fail(208, sp)
  ELSE LET sv == sp[1]
           cur == SizeSub(sv.view.end, sv.str.begin)
           target == sv.length - n IN
       IF target <= cur THEN Fail(211, sp)
       ELSE Ok(214, Ptr(SetView(sv, sv.view.end, sv.str.begin + target)))

sno_rtab(sp, n) ==
  IF sp = NULL THEN Fail(208, sp)
  ELSE IF n > sp[1].length THEN Fail(208, sp)
  ELSE LET sv == sp[1]
           cur == SizeSub(sv.view.end, sv.str.begin)
           target == sv.length - n IN
       IF target < cur THEN Fail(211, sp)
       ELSE Ok(214, Ptr(SetView(sv, sv.view.end, sv.str.begin + target)))

\* Variant: s->view.end = s->str.end;  (the terminator taken as text)
sno_rem_keepterm(sp) ==
  IF sp = NULL THEN Fail(218, sp)
  ELSE LET sv == sp[1] IN
       Ok(221, Ptr(SetView(sv, sv.view.end, sv.str.end)))

\* Variant: s->view.end = --s->str.end;  (the subject's end pointer moved)
sno_rem_predec(sp) ==
  IF sp = NULL THEN Fail(218, sp)
  ELSE LET sv == sp[1] IN
       Ok(221, Ptr([SetView(sv, sv.view.end, sv.str.end - 1) EXCEPT !.str.end = sv.str.end - 1]))

sno_rem(sp) ==
  IF sp = NULL THEN Fail(218, sp)
  ELSE LET sv == sp[1] IN
       Ok(221, Ptr(SetView(sv, sv.view.end, sv.str.end - 1)))

\* ((s) && (size_t)((s)->view.end - (s)->str.begin) == (n))
sno_at(sp, n) == sp # NULL /\ SizeSub(sp[1].view.end, sp[1].str.begin) = n

\* Variant: the offset compared with str.end - str.begin - n.
sno_at_r_strend(sp, n) ==
  sp # NULL /\ SizeSub(sp[1].view.end, sp[1].str.begin)
                 = SizeSub(SizeSub(sp[1].str.end, sp[1].str.begin), n)

\* ((s) && (size_t)((s)->view.end - (s)->str.begin) == (s)->length - (n))
sno_at_r(sp, n) ==
  sp # NULL /\ SizeSub(sp[1].view.end, sp[1].str.begin) = SizeSub(sp[1].length, n)

\* Variant: only view.begin is put back.
sno_rollback_noend(line, sp, pos) ==
  IF sp # NULL THEN Fail(line, Ptr([sp[1] EXCEPT !.view.begin = pos])) ELSE Fail(line, sp)

\* Variant: only view.end is put back.
sno_rollback_keepbegin(line, sp, pos) ==
  IF sp # NULL THEN Fail(line, Ptr([sp[1] EXCEPT !.view.end = pos])) ELSE Fail(line, sp)

\* ((s) ? ((s)->view.end = (pos), (s)->view.begin = (pos), false) : false)
\* used as `return sno_rollback(s, start);` on the given line
sno_rollback(line, sp, pos) ==
  IF sp # NULL THEN Fail(line, Ptr(SetView(sp[1], pos, pos))) ELSE Fail(line, sp)

\* char delim[3] = {open, close, '\0'};  read as a C string
Delim(open, close) ==
  IF open = NUL THEN <<>> ELSE IF close = NUL THEN <<open>> ELSE <<open, close>>

RECURSIVE sno_bal(_, _, _)
RECURSIVE BalLoop(_, _, _, _)

\* The while loop of sno_bal and what follows it, from the context sp.
BalLoop(sp, open, close, start) ==
  LET e == sp[1].view.end IN
  IF ~InMem(e) THEN OutOfModel(sp)
  ELSE IF mem[e + 1] # NUL /\ mem[e + 1] # close
  THEN IF mem[e + 1] = open
       THEN LET r == sno_bal(sp, open, close) IN
            IF r.oob THEN r
            ELSE IF ~r.ret THEN sno_rollback(234, r.sp, start)
            ELSE BalLoop(r.sp, open, close, start)
       ELSE LET r == sno_notany(sp, Ptr(Delim(open, close))) IN
            IF r.oob THEN r
            ELSE IF ~r.ret THEN sno_rollback(236, r.sp, start)
            ELSE BalLoop(r.sp, open, close, start)
  ELSE LET r == sno_lit(sp, close) IN
       IF r.oob THEN r
       ELSE IF ~r.ret THEN sno_rollback(240, r.sp, start)
       ELSE Ok(243, Ptr([r.sp[1] EXCEPT !.view.begin = start]))

sno_bal(sp, open, close) ==
  IF sp = NULL THEN Fail(225, sp)
  ELSE LET start == sp[1].view.end
           r == sno_lit(sp, open) IN
       IF r.oob THEN r
       ELSE IF ~r.ret THEN Fail(230, r.sp)
       ELSE BalLoop(r.sp, open, close, start)

----------------------------------------------------------------------------
(* The caller: one action per library call *)

CtxArgs == {NULL, Ptr(s)}
\* Every primitive starts with the same test of s; a null context is passed
\* to sno_bind, sno_reset, sno_var and sno_bal, the others are called on the
\* bound context (C27 evaluates each of them on a null one in every state).
Bound == {Ptr(s)}

\* A call on a null context or a null buffer returns before it looks at its
\* other arguments, so one value of each is enough there.
ArgsFor(p, S) == IF p = NULL THEN {CHOOSE x \in S : TRUE} ELSE S

\* The call named o returned r: context, return value, destination bytes.
Return(o, result) ==
  \E r \in {result} :
    /\ ~r.oob
    /\ op' = o
    /\ exit' = r.exit
    /\ ret' = r.ret
    /\ written' = r.out
    /\ s' = IF r.sp = NULL THEN s ELSE r.sp[1]
    /\ UNCHANGED <<mem, pc, bufs, acc, s2, frames>>

Zero == [str |-> [begin |-> 0, end |-> 0], view |-> [begin |-> 0, end |-> 0],
         mark |-> 0, length |-> 0]

\* The character arrays of the example programs, nothing stored yet.
NoBufs == [b \in {"key", "val", "expr", "year", "city"} |-> <<>>]
\* No example program: the caller makes any call.
Idle == [prog |-> "none", step |-> 0, key |-> <<>>, val |-> <<>>, cap |-> 0]

\* sno_subject_t s = {0}; sno_bind(&s, text);
Init ==
  /\ mem \in Memories
  /\ s = sno_bind(Ptr(Zero), Ptr(mem))[1]
  /\ op = "sno_bind"
  /\ exit = 98
  /\ ret = TRUE
  /\ written = <<>>
  /\ pc = Idle
  /\ bufs = NoBufs
  /\ acc = <<>>
  /\ s2 = Zero
  /\ frames = <<>>

\* sno_bind returns nothing; ret records TRUE.
Do_sno_bind(sp, cp) ==
  /\ op' = "sno_bind"
  /\ exit' = 98
  /\ ret' = TRUE
  /\ written' = <<>>
  /\ s' = IF sp = NULL THEN s ELSE sno_bind(sp, cp)[1]
  /\ mem' = IF sp # NULL /\ cp # NULL THEN cp[1] ELSE mem
  /\ UNCHANGED <<pc, bufs, acc, s2, frames>>

Do_sno_reset(sp) == Return("sno_reset", sno_reset(sp))
Do_sno_lit(sp, ch) == Return("sno_lit", sno_lit(sp, ch))
Do_sno_len(sp, n) == Return("sno_len", sno_len(sp, n))
Do_sno_span(sp, setp) == Return("sno_span", sno_span(sp, setp))
Do_sno_break(sp, setp) == Return("sno_break", sno_break(sp, setp))
Do_sno_any(sp, setp) == Return("sno_any", sno_any(sp, setp))
Do_sno_notany(sp, setp) == Return("sno_notany", sno_notany(sp, setp))
Do_sno_tab(sp, n) == Return("sno_tab", sno_tab(sp, n))
Do_sno_rtab(sp, n) == Return("sno_rtab", sno_rtab(sp, n))
Do_sno_rem(sp) == Return("sno_rem", sno_rem(sp))
Do_sno_mark(sp) == Return("sno_mark", sno_mark(sp))
Do_sno_var(sp, buf, buflen) == Return("sno_var", sno_var(sp, buf, buflen))
Do_sno_cap(sp, buf, buflen) == Return("sno_cap", sno_cap(sp, buf, buflen))
Do_sno_len_var(sp, n, buf, buflen) == Return("sno_len_var", sno_len_var(sp, n, buf, buflen))
Do_sno_bal(sp, open, close) == Return("sno_bal", sno_bal(sp, open, close))

\* Patterns a caller composes with && and ||: a primitive and its argument.
Patterns == { [f |-> "sno_lit", a |-> <<"(">>],
              [f |-> "sno_span", a |-> <<"a">>] }
Sequences2 == {<<p>> : p \in Patterns} \cup {<<p, q>> : p \in Patterns, q \in Patterns}

Apply(sp, p) ==
  CASE p.f = "sno_lit"  -> sno_lit(sp, p.a[1])
    [] p.f = "sno_span" -> sno_span(sp, Ptr(p.a))

\* p1 && p2 && ...: stops at the first primitive that returns false.
\* `failed` is its position in the sequence, 0 when all succeeded.
RECURSIVE RunSeq(_, _, _)
RunSeq(sp, A, i) ==
  IF i > Len(A) THEN [ret |-> TRUE, sp |-> sp, oob |-> FALSE, failed |-> 0]
  ELSE LET r == Apply(sp, A[i]) IN
       IF r.oob \/ ~r.ret THEN [ret |-> FALSE, sp |-> r.sp, oob |-> r.oob, failed |-> i]
       ELSE RunSeq(r.sp, A, i + 1)

\* The cursor B starts from in (A) || B, when A fails.
BStart(A) == RunSeq(Ptr(s), A, 1).sp[1].view.end

\* (p1 && p2) || B
Do_seq_or(A, B) ==
  \E ra \in {RunSeq(Ptr(s), A, 1)} :
    /\ ~ra.oob
    /\ \E rb \in {IF ra.ret THEN ra ELSE Apply(ra.sp, B)} :
         /\ ~rb.oob
         /\ op' = "seq_or"
         /\ exit' = ra.failed
         /\ ret' = rb.ret
         /\ written' = <<>>
         /\ s' = rb.sp[1]
         /\ UNCHANGED <<mem, pc, bufs, acc, s2, frames>>

Call_seq_or == \E A \in Sequences2, B \in Patterns : Do_seq_or(A, B)

Call_sno_bind ==
  \E sp \in CtxArgs, cp \in {NULL} \cup {Ptr(m) : m \in RebindMemories} : Do_sno_bind(sp, cp)
Call_sno_reset == \E sp \in CtxArgs : Do_sno_reset(sp)
Call_sno_lit == \E sp \in Bound : \E ch \in ArgsFor(sp, CharArgs) : Do_sno_lit(sp, ch)
Call_sno_len == \E sp \in Bound : \E n \in ArgsFor(sp, NArgs) : Do_sno_len(sp, n)
Call_sno_span == \E sp \in Bound : \E setp \in ArgsFor(sp, SetArgs) : Do_sno_span(sp, setp)
Call_sno_break == \E sp \in Bound : \E setp \in ArgsFor(sp, SetArgs) : Do_sno_break(sp, setp)
Call_sno_any == \E sp \in Bound : \E setp \in ArgsFor(sp, SetArgs) : Do_sno_any(sp, setp)
Call_sno_notany == \E sp \in Bound : \E setp \in ArgsFor(sp, SetArgs) : Do_sno_notany(sp, setp)
Call_sno_tab == \E sp \in Bound : \E n \in ArgsFor(sp, NArgs) : Do_sno_tab(sp, n)
Call_sno_rtab == \E sp \in Bound : \E n \in ArgsFor(sp, NArgs) : Do_sno_rtab(sp, n)
Call_sno_rem == \E sp \in Bound : Do_sno_rem(sp)
Call_sno_mark == \E sp \in Bound : Do_sno_mark(sp)
Call_sno_var ==
  \E sp \in CtxArgs : \E buf \in ArgsFor(sp, BufArgs) : \E buflen \in ArgsFor(buf, BufLens) :
    Do_sno_var(sp, buf, buflen)
Call_sno_cap ==
  \E sp \in Bound : \E buf \in ArgsFor(sp, BufArgs) : \E buflen \in ArgsFor(buf, BufLens) :
    Do_sno_cap(sp, buf, buflen)
Call_sno_len_var ==
  \E sp \in Bound : \E n \in ArgsFor(sp, NArgs) :
    \E buf \in ArgsFor(sp, BufArgs) : \E buflen \in ArgsFor(buf, BufLens) :
      Do_sno_len_var(sp, n, buf, buflen)
Call_sno_bal ==
  \E sp \in CtxArgs : \E open \in ArgsFor(sp, CharArgs) : \E close \in ArgsFor(sp, CharArgs) :
    Do_sno_bal(sp, open, close)

Next ==
  \/ Call_sno_bind
  \/ Call_sno_reset
  \/ Call_sno_lit
  \/ Call_sno_len
  \/ Call_sno_span
  \/ Call_sno_break
  \/ Call_sno_any
  \/ Call_sno_notany
  \/ Call_sno_tab
  \/ Call_sno_rtab
  \/ Call_sno_rem
  \/ Call_sno_mark
  \/ Call_sno_var
  \/ Call_sno_cap
  \/ Call_sno_len_var
  \/ Call_sno_bal
  \/ Call_seq_or

Spec == Init /\ [][Next]_vars

TypeOK ==
  /\ mem \in Memories \cup RebindMemories
  /\ s.view.begin \in Nat /\ s.view.end \in Nat /\ s.mark \in Nat
  /\ ret \in BOOLEAN

----------------------------------------------------------------------------
(* The example programs *)

CR == "CR"
LF == "LF"
SNO_ALNUM_U == 
  <<"A", "B", "C", "D", "E", "F", "G", "H", "I", "J", "K", "L", "M", "N", "O", "P", "Q", "R", "S", "T", "U", "V", "W", "X", "Y", "Z",
   "a", "b", "c", "d", "e", "f", "g", "h", "i", "j", "k", "l", "m", "n", "o", "p", "q", "r", "s", "t", "u", "v", "w", "x", "y", "z",
   "0", "1", "2", "3", "4", "5", "6", "7", "8", "9", "_">>

\* One statement of an example: the call, its arguments, its destination.
Stmt(f, set, ch, close, n, buf, cap) ==
  [f |-> f, set |-> set, ch |-> ch, close |-> close, n |-> n, buf |-> buf, cap |-> cap]
StSet(f, set) == Stmt(f, set, NUL, NUL, 0, "", 0)
StCh(ch) == Stmt("sno_lit", <<>>, ch, NUL, 0, "", 0)
StBal(open, close) == Stmt("sno_bal", <<>>, open, close, 0, "", 0)
StTab(n) == Stmt("sno_tab", <<>>, NUL, NUL, n, "", 0)
StCap(buf, cap) == Stmt("sno_cap", <<>>, NUL, NUL, 0, buf, cap)
St(f) == Stmt(f, <<>>, NUL, NUL, 0, "", 0)

\* main(): the key/value extraction, one && chain; cap is sizeof(key), sizeof(val)
KeyValue(cap) ==
  [chain |-> TRUE,
   stmts |-> << StSet("sno_span", SNO_ALNUM_U), StCh("="), St("sno_mark"),
                StSet("sno_break", <<CR, LF>>), StCap("val", cap), St("sno_reset"),
                StSet("sno_span", SNO_ALNUM_U), StCap("key", cap) >>]

\* The sno_bal example: sno_mark, then one && chain ending in sno_cap.
Balanced(cap) ==
  [chain |-> TRUE,
   stmts |-> << St("sno_mark"), StCh("A"), StBal("(", ")"), StCh("E"), StCap("expr", cap) >>]

\* The sno_tab example: statements whose results are not tested.
FixedWidth(cap) ==
  [chain |-> FALSE,
   stmts |-> << StTab(4), StCap("year", 5), StTab(14), St("sno_mark"),
                StSet("sno_break", <<",">>), StCap("city", cap) >>]

Program(p) ==
  CASE p.prog = "kv"  -> KeyValue(p.cap)
    [] p.prog = "bal" -> Balanced(p.cap)
    [] p.prog = "tab" -> FixedWidth(p.cap)

Exec(sp, st) ==
  CASE st.f = "sno_span"  -> sno_span(sp, Ptr(st.set))
    [] st.f = "sno_break" -> sno_break(sp, Ptr(st.set))
    [] st.f = "sno_lit"   -> sno_lit(sp, st.ch)
    [] st.f = "sno_bal"   -> sno_bal(sp, st.ch, st.close)
    [] st.f = "sno_tab"   -> sno_tab(sp, st.n)
    [] st.f = "sno_mark"  -> sno_mark(sp)
    [] st.f = "sno_reset" -> sno_reset(sp)
    [] st.f = "sno_cap"   -> sno_cap(sp, Ptr(st.buf), st.cap)

\* Subjects of the examples and of their variations.
HostAlpha == <<"h", "o", "s", "t", "=", "a", "l", "p", "h", "a">>
Keys == {<<"h", "o", "s", "t">>, <<"h", "_", "1">>, <<"x">>}
Vals == {<<"a", "l", "p", "h", "a">>, <<"a", "=", "1">>, <<>>}
Eols == {<<>>, <<CR, LF>>}
BalText == <<"A", "(", "B", "(", "C", ")", "D", ")", "E">>
BalTexts == {BalText, <<"A", "(", "B", "(", "C", ")", "D", "E">>, <<"A", "(", ")", "E">>}
Record == <<"1", "2", "9", "0", " ", "S", "E", "P", ".", " ", "2", "7", " ", "C", "H", "I", "N", "A", ",", " ", "C", "H", "I", "H", "L", "I">>
Records == {Record, <<"1", "2", "9", "0", " ", "S", "E", "P", ".", " ", "2", "7">>}

Done(p) == p.step > Len(Program(p).stmts)

\* sno_subject_t s = {0}; the arrays; sno_bind(&s, text);
ExBind(text, p) ==
  /\ mem = Memory(text, [i \in 1..MaxOver |-> NUL])
  /\ s = sno_bind(Ptr(Zero), Ptr(mem))[1]
  /\ op = "sno_bind" /\ exit = 98 /\ ret = TRUE /\ written = <<>>
  /\ pc = p
  /\ bufs = NoBufs
  /\ acc = <<>>
  /\ s2 = Zero
  /\ frames = <<>>

ExInit ==
  \/ \E k \in Keys, v \in Vals, e \in Eols, c \in {16, 4} :
       ExBind(k \o <<"=">> \o v \o e, [prog |-> "kv", step |-> 1, key |-> k, val |-> v, cap |-> c])
  \/ \E x \in BalTexts, c \in {64, 8} :
       ExBind(x, [prog |-> "bal", step |-> 1, key |-> <<>>, val |-> <<>>, cap |-> c])
  \/ \E x \in Records, c \in {32, 4} :
       ExBind(x, [prog |-> "tab", step |-> 1, key |-> <<>>, val |-> <<>>, cap |-> c])

\* The next statement of the program; in an && chain a false result ends it.
ExStep ==
  /\ pc.prog # "none" /\ ~Done(pc)
  /\ \E P \in {Program(pc)} : \E st \in {P.stmts[pc.step]} : \E r \in {Exec(Ptr(s), st)} :
       /\ ~r.oob
       /\ op' = st.f
       /\ exit' = r.exit
       /\ ret' = r.ret
       /\ written' = r.out
       /\ s' = r.sp[1]
       /\ bufs' = IF st.f = "sno_cap" /\ r.ret THEN [bufs EXCEPT ![st.buf] = r.out] ELSE bufs
       /\ pc' = [pc EXCEPT !.step = IF P.chain /\ ~r.ret THEN Len(P.stmts) + 1 ELSE pc.step + 1]
       /\ UNCHANGED <<mem, acc, s2, frames>>

ExNext == ExStep

SpecEx == ExInit /\ [][ExNext]_vars

----------------------------------------------------------------------------
(* Properties *)

\* The byte at offset p of the bound memory; the terminator and every NUL
\* after it read as end-of-text.
At(p) == mem[p + 1]
AtEnd(p) == At(p) = NUL
\* ch is one of the characters of the set (the set's terminator is not).
Member(set, ch) == ch # NUL /\ \E i \in 1..Len(set) : set[i] = ch

NonNullSets == {setp \in SetArgs : setp # NULL}

CursorOnlyMatchers ==
  {"sno_lit", "sno_len", "sno_span", "sno_any", "sno_notany", "sno_tab", "sno_rtab"}

\* C1: when sno_lit, sno_len, sno_span, sno_any, sno_notany, sno_tab or
\* sno_rtab returns false, view.begin, view.end and mark are what they were
\* immediately before the call.
C1_FailurePreservesCursor ==
  [][(op' \in CursorOnlyMatchers /\ ret' = FALSE)
       => (s'.view = s.view /\ s'.mark = s.mark)]_vars

\* A matcher has just failed on a bound context, after an earlier match and
\* a mark had moved view and mark away from the start.
C1_Witness ==
  /\ op \in CursorOnlyMatchers /\ ret = FALSE
  /\ exit \in {109, 118, 129, 182, 191, 200, 211}
  /\ s.view.begin < s.view.end /\ s.mark > 0

\* C2: when sno_len_var returns false, for whatever reason, view.begin,
\* view.end and mark are what they were before the call, also when sno_len
\* alone would have succeeded.
C2_LenVarAtomic ==
  [][(op' = "sno_len_var" /\ ret' = FALSE)
       => (s'.view = s.view /\ s'.mark = s.mark)]_vars

\* sno_len_var has just failed at its last return: sno_len had succeeded and
\* the extraction failed.
C2_Witness ==
  /\ op = "sno_len_var" /\ ret = FALSE /\ exit = 161
  /\ s.view.end < s.length

\* C3: when sno_bal returns false, the cursor view.end is what it was before
\* the outermost call, also when the failure first occurs in a nested call.
C3_BalFailureRestoresCursor ==
  [][(op' = "sno_bal" /\ ret' = FALSE) => s'.view.end = s.view.end]_vars

\* sno_bal has just failed because a recursive call for a nested group failed.
C3_Witness == op = "sno_bal" /\ ret = FALSE /\ exit = 234

C5_ViewInRange ==
  /\ 0 <= s.view.begin
  /\ s.view.begin <= s.view.end
  /\ s.view.end <= s.length

\* The cursor after the first k primitives of A have run.
CursorAfter(A, k) == RunSeq(Ptr(s), SubSeq(A, 1, k), 1).sp[1].view.end

RECURSIVE MatchingClose(_, _, _, _)
MatchingClose(p, d, open, close) ==
  IF ~InMem(p) \/ AtEnd(p) THEN -1
  ELSE IF At(p) = close THEN (IF d = 1 THEN p ELSE MatchingClose(p + 1, d - 1, open, close))
  ELSE IF At(p) = open THEN MatchingClose(p + 1, d + 1, open, close)
  ELSE MatchingClose(p + 1, d, open, close)

\* C7: for open # close, sno_bal returns true iff the character at the
\* cursor is open and a matching close exists (the first later position at
\* which closes equal opens); on success the cursor is just after that close
\* and the view is [pre-call cursor, new cursor).
C7_BalMatchesBalanced ==
  [][op' = "sno_bal" =>
       \A open \in CharArgs, close \in CharArgs :
          (open # close /\ Do_sno_bal(Ptr(s), open, close)) =>
             LET c == s.view.end
                 m == MatchingClose(c + 1, 1, open, close) IN
             /\ ret' <=> (~AtEnd(c) /\ At(c) = open /\ m >= 0)
             /\ ret' => s'.view = [begin |-> c, end |-> m + 1]]_vars

\* C8: sno_span with non-null arguments returns true iff the character at
\* the cursor is a member of set; a successful view is never empty and is
\* [old cursor, p) with p the end of the maximal run of set members (the
\* character at p is end-of-text or not in set).
C8_SpanMaximalRun ==
  [][op' = "sno_span" =>
       \A setp \in NonNullSets :
          Do_sno_span(Ptr(s), setp) =>
             LET c == s.view.end
                 v == s'.view IN
             /\ ret' <=> Member(setp[1], At(c))
             /\ ret' => /\ v.begin = c /\ v.end > c
                        /\ \A i \in c..(v.end - 1) : Member(setp[1], At(i))
                        /\ ~Member(setp[1], At(v.end))]_vars

\* sno_span has just matched a run of two or more characters.
C8_Witness ==
  op = "sno_span" /\ ret = TRUE /\ exit = 132 /\ s.view.end >= s.view.begin + 2

\* C9: sno_break with non-null arguments returns true in every state, for
\* every content; the view is [old cursor, p) with p the first position at or
\* after the old cursor that is end-of-text or holds a set member, which is
\* not consumed (the view is empty when the cursor is already on one).
C9_BreakAlwaysSucceeds ==
  [][op' = "sno_break" =>
       \A setp \in NonNullSets :
          Do_sno_break(Ptr(s), setp) =>
             LET c == s.view.end
                 v == s'.view IN
             /\ ret'
             /\ v.begin = c /\ v.end >= c
             /\ \A i \in c..(v.end - 1) : ~AtEnd(i) /\ ~Member(setp[1], At(i))
             /\ AtEnd(v.end) \/ Member(setp[1], At(v.end))]_vars

\* sno_break has just succeeded with an empty view, the cursor on a set
\* member or at end-of-text.
C9_Witness ==
  op = "sno_break" /\ ret = TRUE /\ exit = 143 /\ s.view.begin = s.view.end

\* C10: sno_lit(s, ch) returns true iff the cursor is before end-of-text and
\* the character at the cursor equals ch; on success the view is
\* [old cursor, old cursor + 1); at end-of-text it fails for every ch and
\* leaves the view unchanged.
C10_LitSpec ==
  [][op' = "sno_lit" =>
       \A ch \in CharArgs :
          Do_sno_lit(Ptr(s), ch) =>
             LET c == s.view.end IN
             /\ ret' <=> (~AtEnd(c) /\ At(c) = ch)
             /\ ret' => s'.view = [begin |-> c, end |-> c + 1]
             /\ ~ret' => s' = s]_vars

\* C11: sno_len(s, n) returns true iff cursor offset + n <= length; on
\* success the cursor advances by exactly n and the view is
\* [old cursor, old cursor + n); otherwise it returns false with the state
\* unchanged.
C11_LenSpec ==
  [][op' = "sno_len" =>
       \A n \in NArgs :
          Do_sno_len(Ptr(s), n) =>
             LET c == s.view.end IN
             /\ ret' <=> (c + n <= s.length)
             /\ ret' => s'.view = [begin |-> c, end |-> c + n]
             /\ ~ret' => s' = s]_vars

\* C12: sno_len(s, 0) returns false in every reachable state and leaves view
\* and mark unchanged.
C12_LenZeroFails ==
  [][op' = "sno_len" =>
       (Do_sno_len(Ptr(s), 0) =>
          ret' = FALSE /\ s'.view = s.view /\ s'.mark = s.mark)]_vars

C15_RemSpec ==
  [][op' = "sno_rem" =>
       (Do_sno_rem(Ptr(s)) =>
          /\ ret'
          /\ s'.view = [begin |-> s.view.end, end |-> s.length]
          /\ s'.view.end = s'.length)]_vars

\* sno_rem has just succeeded with the cursor already at the end of a
\* non-empty text: the view is empty.
C15_Witness ==
  /\ op = "sno_rem" /\ ret = TRUE /\ exit = 221
  /\ s.view.begin = s.length /\ s.view.end = s.length /\ s.length > 0

\* C16: in every reachable state sno_rtab(s, 0) and sno_rem(s) return the
\* same boolean and leave the same view and mark.
C16_RtabZeroIsRem ==
  LET a == sno_rtab(Ptr(s), 0)
      b == sno_rem(Ptr(s)) IN
  a.ret = b.ret /\ a.sp = b.sp

\* C17: in every reachable state mark <= view.end.
C17_MarkBeforeCursor == s.mark <= s.view.end

\* The bytes of the bound memory in [from, to).
Bytes(from, to) == [i \in 1..(to - from) |-> mem[from + i]]

\* C18: sno_var(s, buf, buflen) with non-null buf returns true iff
\* buflen > view.end - view.begin; on success buf holds the bytes of the
\* view followed by NUL; view and mark are unchanged in both outcomes.
C18_VarSpec ==
  [][op' = "sno_var" =>
       \A buflen \in BufLens :
          Do_sno_var(Ptr(s), Ptr("buf"), buflen) =>
             /\ ret' <=> (buflen > s.view.end - s.view.begin)
             /\ ret' => written' = Bytes(s.view.begin, s.view.end) \o <<NUL>>
             /\ s'.view = s.view /\ s'.mark = s.mark]_vars

\* C19: sno_cap(s, buf, buflen) with non-null buf returns true iff
\* buflen > view.end - mark; on success buf holds the bytes of
\* [mark, cursor) followed by NUL; view and mark are unchanged in both
\* outcomes.
C19_CapSpec ==
  [][op' = "sno_cap" =>
       \A buflen \in BufLens :
          Do_sno_cap(Ptr(s), Ptr("buf"), buflen) =>
             /\ ret' <=> (buflen > s.view.end - s.mark)
             /\ ret' => written' = Bytes(s.mark, s.view.end) \o <<NUL>>
             /\ s'.view = s.view /\ s'.mark = s.mark]_vars

\* The bytes a call r with capacity buflen stored: none on failure, on
\* success the k bytes of the span it copied and the terminator,
\* k + 1 <= buflen.
WithinCapacity(r, buflen, k) ==
  ~r.oob => /\ Len(r.out) <= buflen
            /\ r.ret => Len(r.out) = k + 1
            /\ ~r.ret => r.out = <<>>

\* C20: sno_var, sno_cap and sno_len_var never write at an index >= buflen
\* of the destination: from every reachable state and for every capacity, a
\* successful call writes exactly k + 1 <= buflen bytes (k the length of the
\* copied span), a failing call writes nothing.
C20_NoOverrun ==
  [](\A buf \in BufArgs, buflen \in BufLens :
       /\ WithinCapacity(sno_var(Ptr(s), buf, buflen), buflen, s.view.end - s.view.begin)
       /\ WithinCapacity(sno_cap(Ptr(s), buf, buflen), buflen, s.view.end - s.mark)
       /\ \A n \in NArgs :
             LET r == sno_len_var(Ptr(s), n, buf, buflen) IN
             WithinCapacity(r, buflen, r.sp[1].view.end - r.sp[1].view.begin))

\* A capture has just filled its destination to the last byte: a span of
\* MaxBuf - 1 characters and the terminator.
C20_Witness ==
  op \in {"sno_var", "sno_cap", "sno_len_var"} /\ ret = TRUE /\ Len(written) = MaxBuf

\* The number of characters of the C string at m before its terminator.
TextLen(m) == CHOOSE k \in 0..(Len(m) - 1) : m[k + 1] = NUL /\ \A j \in 1..k : m[j] # NUL

\* C21: after any prior calls, sno_bind(s, text) with non-null arguments
\* leaves the state of a first bind of text: length is the number of
\* characters before the terminator, view is the empty span at offset 0,
\* mark is offset 0, and no field keeps a value of the previous subject.
C21_RebindReplacesState ==
  [][op' = "sno_bind" =>
       \A m \in RebindMemories :
          Do_sno_bind(Ptr(s), Ptr(m)) =>
             /\ s' = sno_bind(Ptr(Zero), Ptr(m))[1]
             /\ s'.length = TextLen(m)
             /\ s'.view = [begin |-> 0, end |-> 0] /\ s'.mark = 0
             /\ s'.str = [begin |-> 0, end |-> TextLen(m) + 1]
             /\ mem' = m]_vars

\* A text that is bound only by a second sno_bind has just been bound.
C21_Witness ==
  /\ op = "sno_bind" /\ mem \notin Memories
  /\ s.length = 2 /\ s.view.end = 0 /\ s.mark = 0

\* C22: sno_reset(s) on a bound subject returns true, sets view to the empty
\* span at offset 0 and mark to 0 and leaves text, str and length unchanged:
\* the state is the one right after the bind of the same text, so the same
\* calls give the same results again.
C22_ResetRestoresStart ==
  [][op' = "sno_reset" =>
       (Do_sno_reset(Ptr(s)) =>
          /\ ret'
          /\ s'.view = [begin |-> 0, end |-> 0] /\ s'.mark = 0
          /\ s'.str = s.str /\ s'.length = s.length /\ mem' = mem
          /\ s' = sno_bind(Ptr(Zero), Ptr(mem))[1])]_vars

\* sno_reset has just returned true on a non-empty subject.
C22_Witness ==
  op = "sno_reset" /\ ret = TRUE /\ exit = 103 /\ s.length > 1 /\ s.view.end = 0

\* C23: sno_mark(s) on a non-null context returns true, sets mark to the
\* cursor and leaves the view unchanged; no call other than sno_mark,
\* sno_bind and sno_reset changes mark, on success or on failure.
C23_MarkFrame ==
  [][/\ op' = "sno_mark" =>
          (Do_sno_mark(Ptr(s)) =>
             ret' /\ s'.mark = s.view.end /\ s'.view = s.view)
     /\ op' \notin {"sno_mark", "sno_bind", "sno_reset"} => s'.mark = s.mark]_vars

\* sno_mark has just recorded a cursor that is past the start of the
\* subject and past the start of the view.
C23_Witness ==
  /\ op = "sno_mark" /\ ret = TRUE /\ exit = 167
  /\ s.mark = s.view.end /\ s.view.begin < s.view.end

\* C24: sno_at(s, n) is true iff the cursor offset equals n, sno_at_r(s, n)
\* iff the cursor offset equals length - n; both are false for a NULL
\* context (they are expressions without assignments: view and mark are
\* not modified).
C24_AtSpec ==
  \A n \in NArgs :
     /\ sno_at(Ptr(s), n) <=> (s.view.end - s.str.begin = n)
     /\ sno_at_r(Ptr(s), n) <=> (s.view.end - s.str.begin = s.length - n)
     /\ ~sno_at(NULL, n) /\ ~sno_at_r(NULL, n)

\* C25: after successful matchers have consumed the entire bound string (a
\* successful sno_rem, or any successful matcher that ends at offset
\* length), sno_at_r(s, 0) and sno_at(s, length) are true.
C25_AtEndAfterRem ==
  [][(ret' /\ (op' = "sno_rem" \/ (op' \notin {"sno_bind", "sno_reset"}
                                     /\ s'.view.end = s'.length)))
       => (sno_at_r(Ptr(s'), 0) /\ sno_at(Ptr(s'), s'.length))]_vars

\* sno_rem has just consumed a non-empty rest of the subject.
C25_Witness ==
  /\ op = "sno_rem" /\ ret = TRUE /\ exit = 221
  /\ s.view.begin < s.view.end /\ s.view.end = s.length

\* C26: for every non-empty set, with the cursor before end-of-text exactly
\* one of sno_any(s, set) and sno_notany(s, set) succeeds, and it consumes
\* one character with view [old cursor, old cursor + 1); at end-of-text
\* both fail.
C26_AnyNotanyComplement ==
  \A setp \in {p \in NonNullSets : p[1] # <<>>} :
     LET a == sno_any(Ptr(s), setp)
         b == sno_notany(Ptr(s), setp)
         c == s.view.end IN
     (~a.oob /\ ~b.oob) =>
        IF AtEnd(c) THEN ~a.ret /\ ~b.ret
        ELSE /\ a.ret # b.ret
             /\ a.ret => a.sp[1].view = [begin |-> c, end |-> c + 1]
             /\ b.ret => b.sp[1].view = [begin |-> c, end |-> c + 1]
             /\ a.ret <=> Member(setp[1], At(c))

\* sno_notany has just consumed one character where sno_any would fail.
C26_Witness ==
  /\ op = "sno_notany" /\ ret = TRUE /\ exit = 194
  /\ s.view.end = s.view.begin + 1 /\ s.view.begin > 0

\* The outcome of a call with an invalid argument: false, context unchanged.
Rejected(r, sp) == r.ret = FALSE /\ r.sp = sp /\ r.out = <<>> /\ ~r.oob

\* C27: every primitive called with an invalid argument (NULL context; NULL
\* set; NULL buffer or buflen = 0) returns false and leaves view, mark and
\* the bound subject unchanged; sno_bind with a NULL text leaves the whole
\* context unchanged.
C27_InvalidArgumentsRejected ==
  [](
   /\ sno_bind(Ptr(s), NULL) = Ptr(s)
   /\ Rejected(sno_reset(NULL), NULL) /\ Rejected(sno_mark(NULL), NULL)
   /\ Rejected(sno_rem(NULL), NULL)
   /\ \A ch \in CharArgs :
         /\ Rejected(sno_lit(NULL, ch), NULL)
         /\ \A close \in CharArgs : Rejected(sno_bal(NULL, ch, close), NULL)
   /\ \A n \in NArgs :
         /\ Rejected(sno_len(NULL, n), NULL)
         /\ Rejected(sno_tab(NULL, n), NULL)
         /\ Rejected(sno_rtab(NULL, n), NULL)
   /\ \A setp \in SetArgs :
         /\ Rejected(sno_span(NULL, setp), NULL) /\ Rejected(sno_break(NULL, setp), NULL)
         /\ Rejected(sno_any(NULL, setp), NULL) /\ Rejected(sno_notany(NULL, setp), NULL)
   /\ Rejected(sno_span(Ptr(s), NULL), Ptr(s)) /\ Rejected(sno_break(Ptr(s), NULL), Ptr(s))
   /\ Rejected(sno_any(Ptr(s), NULL), Ptr(s)) /\ Rejected(sno_notany(Ptr(s), NULL), Ptr(s))
   /\ \A buf \in BufArgs, buflen \in BufLens :
         /\ Rejected(sno_var(NULL, buf, buflen), NULL)
         /\ Rejected(sno_cap(NULL, buf, buflen), NULL)
         /\ \A n \in NArgs : Rejected(sno_len_var(NULL, n, buf, buflen), NULL)
         /\ (buf = NULL \/ buflen = 0) =>
               /\ Rejected(sno_var(Ptr(s), buf, buflen), Ptr(s))
               /\ Rejected(sno_cap(Ptr(s), buf, buflen), Ptr(s))
               /\ \A n \in NArgs :
                     LET r == sno_len_var(Ptr(s), n, buf, buflen) IN
                     r.oob \/ Rejected(r, Ptr(s)))

\* sno_var has just refused a NULL buffer or a zero capacity, on a context
\* whose view is not empty.
C27_Witness ==
  op = "sno_var" /\ ret = FALSE /\ exit = 147 /\ s.view.begin < s.view.end

\* The text followed by the terminator: a C string as an array holds it.
CStr(text) == text \o <<NUL>>

\* C28: binding "host=alpha", then span over letters/digits/underscore,
\* literal '=', mark, break on CR/LF, capture (value), reset, span, capture
\* (key): every step succeeds with 16-byte buffers and the captures are
\* "alpha" and "host"; likewise for the other keys and values.
C28_KeyValueExample ==
  (pc.prog = "kv" /\ pc.cap = 16 /\ Done(pc)) =>
     /\ ret = TRUE
     /\ bufs["val"] = CStr(pc.val) /\ bufs["key"] = CStr(pc.key)
     /\ (mem = Memory(HostAlpha, [i \in 1..MaxOver |-> NUL]) =>
           bufs["val"] = CStr(<<"a", "l", "p", "h", "a">>)
           /\ bufs["key"] = CStr(<<"h", "o", "s", "t">>))

\* The key/value program has run to its end on "host=alpha" with 16-byte
\* arrays.
C28_Witness ==
  /\ pc.prog = "kv" /\ pc.cap = 16 /\ Done(pc) /\ op = "sno_cap" /\ ret = TRUE
  /\ mem = Memory(HostAlpha, [i \in 1..MaxOver |-> NUL])

\* C29: in the balanced-delimiter example (bind "A(B(C)D)E"; sno_mark; match
\* 'A'; sno_bal('(', ')'); match 'E'; sno_cap into a 64-byte buffer) every
\* step succeeds and the captured string is "(B(C)D)".
C29_BalancedExample ==
  (pc.prog = "bal" /\ pc.cap = 64 /\ Done(pc)
     /\ mem = Memory(BalText, [i \in 1..MaxOver |-> NUL])) =>
        /\ ret = TRUE
        /\ bufs["expr"] = CStr(<<"(", "B", "(", "C", ")", "D", ")">>)

\* C30: in the fixed-width example (bind "1290 SEP. 27 CHINA, CHIHLI";
\* sno_tab(4); sno_cap into year[5]; sno_tab(14); sno_mark; sno_break(",");
\* sno_cap into city[32]) the captures are "1290" and "CHINA".
C30_FixedWidthExample ==
  (pc.prog = "tab" /\ pc.cap = 32 /\ Done(pc)
     /\ mem = Memory(Record, [i \in 1..MaxOver |-> NUL])) =>
        /\ bufs["year"] = CStr(<<"1", "2", "9", "0">>)
        /\ bufs["city"] = CStr(<<"C", "H", "I", "N", "A">>)

Matchers ==
  {"sno_lit", "sno_len", "sno_span", "sno_break", "sno_any", "sno_notany",
   "sno_tab", "sno_rtab", "sno_rem", "sno_bal", "sno_len_var"}

C32_CursorNeverMovesLeft ==
  [][op' \notin {"sno_bind", "sno_reset"} =>
       /\ s'.view.end >= s.view.end
       /\ (ret' = FALSE /\ op' # "seq_or") => s'.view.end = s.view.end
       /\ op' \in {"sno_var", "sno_cap", "sno_mark"} => s'.view.end = s.view.end]_vars

\* C34: no operation other than sno_bind changes the bound subject:
\* str.begin, str.end, length and the text bytes keep their values across
\* every sno_reset, matcher, mark and capture call, and in every state
\* str.end - str.begin = length + 1.
C34_SubjectImmutable ==
  [][/\ s.str.end - s.str.begin = s.length + 1
     /\ s'.str.end - s'.str.begin = s'.length + 1
     /\ op' # "sno_bind" =>
          (s'.str = s.str /\ s'.length = s.length /\ mem' = mem)]_vars

\* A capture has just succeeded at the end of a text of two or more
\* characters, after a mark past its start.
C34_Witness ==
  /\ op = "sno_cap" /\ ret = TRUE /\ exit = 176
  /\ s.length >= 2 /\ s.view.end = s.length /\ s.mark > 0

\* C36: for every n of size_t, those for which cursor + n wraps modulo 2^w
\* included, sno_len(s, n) from a cursor inside the subject returns false
\* whenever n exceeds the number of characters remaining after the cursor,
\* and it never leaves the cursor left of where it was or outside the
\* subject.
C36_LenFullRange ==
  \A n \in NArgs :
     LET r == sno_len(Ptr(s), n)
         c == s.view.end IN
     (~r.oob /\ c <= s.length) =>
        /\ n > s.length - c => ~r.ret
        /\ r.sp[1].view.end >= c
        /\ r.sp[1].view.end <= s.length

----------------------------------------------------------------------------
(* The capture scenario: sno_mark, matcher calls, sno_cap *)

\* No mark yet (step 0) or a mark made and not followed by reset or bind
\* (step 1).
Capturing(step) == [prog |-> "capture", step |-> step, key |-> <<>>, val |-> <<>>, cap |-> 0]

\* Capacities: the small ones, one that holds everything matched, SIZE_MAX.
CapLens == BufLens \cup {MaxAcc + 2, SizeMod - 1}

\* sno_subject_t s = {0}; sno_bind(&s, text);
CapInit ==
  /\ mem \in Memories
  /\ s = sno_bind(Ptr(Zero), Ptr(mem))[1]
  /\ op = "sno_bind" /\ exit = 98 /\ ret = TRUE /\ written = <<>>
  /\ pc = Capturing(0)
  /\ bufs = NoBufs
  /\ acc = <<>>
  /\ s2 = Zero
  /\ frames = <<>>

\* sno_mark(&s): the capture starts here, nothing matched after it yet.
CapMark ==
  \E r \in {sno_mark(Ptr(s))} :
    /\ op' = "sno_mark" /\ exit' = r.exit /\ ret' = r.ret /\ written' = r.out
    /\ s' = r.sp[1]
    /\ pc' = Capturing(1)
    /\ acc' = <<>>
    /\ UNCHANGED <<mem, bufs, s2, frames>>

\* A matcher call o returned r: a successful one adds its view to acc.
CapMatch(o, result) ==
  \E r \in {result} :
    /\ ~r.oob
    /\ op' = o /\ exit' = r.exit /\ ret' = r.ret /\ written' = r.out
    /\ s' = r.sp[1]
    /\ acc' = IF r.ret THEN acc \o Bytes(r.sp[1].view.begin, r.sp[1].view.end) ELSE acc
    /\ Len(acc') <= MaxAcc
    /\ UNCHANGED <<mem, pc, bufs, s2, frames>>

\* sno_cap(&s, buf, buflen)
CapCapture ==
  \E buflen \in CapLens : \E r \in {sno_cap(Ptr(s), Ptr("buf"), buflen)} :
    /\ ~r.oob
    /\ op' = "sno_cap" /\ exit' = r.exit /\ ret' = r.ret /\ written' = r.out
    /\ s' = r.sp[1]
    /\ UNCHANGED <<mem, pc, bufs, acc, s2, frames>>

Cap_sno_lit == \E ch \in CharArgs : CapMatch("sno_lit", sno_lit(Ptr(s), ch))
Cap_sno_len == \E n \in NArgs : CapMatch("sno_len", sno_len(Ptr(s), n))
Cap_sno_span == \E setp \in NonNullSets : CapMatch("sno_span", sno_span(Ptr(s), setp))
Cap_sno_break == \E setp \in NonNullSets : CapMatch("sno_break", sno_break(Ptr(s), setp))
Cap_sno_any == \E setp \in NonNullSets : CapMatch("sno_any", sno_any(Ptr(s), setp))
Cap_sno_notany == \E setp \in NonNullSets : CapMatch("sno_notany", sno_notany(Ptr(s), setp))
Cap_sno_tab == \E n \in NArgs : CapMatch("sno_tab", sno_tab(Ptr(s), n))
Cap_sno_rtab == \E n \in NArgs : CapMatch("sno_rtab", sno_rtab(Ptr(s), n))
Cap_sno_rem == CapMatch("sno_rem", sno_rem(Ptr(s)))
Cap_sno_bal ==
  \E open \in CharArgs, close \in CharArgs : CapMatch("sno_bal", sno_bal(Ptr(s), open, close))
Cap_sno_len_var ==
  \E n \in NArgs, buflen \in BufLens :
    CapMatch("sno_len_var", sno_len_var(Ptr(s), n, Ptr("buf"), buflen))

CapNext ==
  \/ CapMark
  \/ Cap_sno_lit
  \/ Cap_sno_len
  \/ Cap_sno_span
  \/ Cap_sno_break
  \/ Cap_sno_any
  \/ Cap_sno_notany
  \/ Cap_sno_tab
  \/ Cap_sno_rtab
  \/ Cap_sno_rem
  \/ Cap_sno_bal
  \/ Cap_sno_len_var
  \/ CapCapture

SpecCap == CapInit /\ [][CapNext]_vars

\* C33: after sno_mark followed by any sequence of matcher calls, successful
\* or failed, with no mark, reset or bind in between, sno_cap with a large
\* enough buffer succeeds and yields the views of the successful calls, one
\* after the other and in order, followed by NUL (the empty string when none
\* succeeded).
C33_CaptureIsConcatenation ==
  pc = Capturing(1) =>
     \A buflen \in CapLens :
        buflen > Len(acc) =>
           LET r == sno_cap(Ptr(s), Ptr("buf"), buflen) IN
           ~r.oob => (r.ret /\ r.out = acc \o <<NUL>>)

----------------------------------------------------------------------------
(* sno_bal step by step: one activation record per call in progress *)

\* The locals of one activation: the arguments, `start`, and the line of
\* sno.c it is at: 230 before `if (!sno_lit(s, open))`, 232 at the test of
\* the while loop, 234 waiting for the recursive call to return.
Frame(start, at, open, close) == [start |-> start, at |-> at, open |-> open, close |-> close]
Top == frames[Len(frames)]

\* The call being run: sno_bal(&s, open, close) made with the cursor at c.
BalCall(open, close, c) ==
  [prog |-> "sno_bal", step |-> c, key |-> <<open>>, val |-> <<close>>, cap |-> 0]

\* sno_bind(&s, text); sno_tab(&s, c); then the call enters sno_bal.
BalInit ==
  /\ mem \in Memories
  /\ \E c \in 0..TextLen(mem), open \in CharArgs, close \in CharArgs :
       /\ s = sno_tab(Ptr(sno_bind(Ptr(Zero), Ptr(mem))[1]), c).sp[1]
       /\ pc = BalCall(open, close, c)
       /\ frames = <<Frame(c, 230, open, close)>>
  /\ op = "sno_tab" /\ exit = 203 /\ ret = TRUE /\ written = <<>>
  /\ bufs = NoBufs
  /\ acc = <<>>
  /\ s2 = Zero

\* The activation on top moves to line `at` with the context sv.
BalGoto(at, sv) ==
  /\ frames' = [frames EXCEPT ![Len(frames)].at = at]
  /\ s' = sv
  /\ UNCHANGED <<exit, ret>>

\* The activation on top returns r at `line`, leaving the context sv.
BalPop(line, r, sv) ==
  /\ frames' = SubSeq(frames, 1, Len(frames) - 1)
  /\ s' = sv
  /\ exit' = line
  /\ ret' = r

BalFrame == op' = "sno_bal" /\ UNCHANGED <<mem, written, pc, bufs, acc, s2>>

\* if (!sno_lit(s, open)) return false;
Bal_open ==
  /\ frames # <<>> /\ Top.at = 230
  /\ \E r \in {sno_lit(Ptr(s), Top.open)} :
       /\ ~r.oob
       /\ IF r.ret THEN BalGoto(232, r.sp[1]) ELSE BalPop(230, FALSE, r.sp[1])
  /\ BalFrame

\* The loop test holds: the cursor is on a character other than close.
InLoop ==
  /\ frames # <<>> /\ Top.at = 232
  /\ InMem(s.view.end)
  /\ At(s.view.end) # NUL /\ At(s.view.end) # Top.close

\* if (*s->view.end == open) { if (!sno_bal(s, open, close)) ...: the call
Bal_recurse ==
  /\ InLoop /\ At(s.view.end) = Top.open
  /\ frames' = Append([frames EXCEPT ![Len(frames)].at = 234],
                      Frame(s.view.end, 230, Top.open, Top.close))
  /\ UNCHANGED <<s, exit, ret>>
  /\ BalFrame

\* ... return sno_rollback(s, start): the recursive call has returned
Bal_returned ==
  /\ frames # <<>> /\ Top.at = 234
  /\ IF ret THEN BalGoto(232, s)
     ELSE BalPop(234, FALSE, sno_rollback(234, Ptr(s), Top.start).sp[1])
  /\ BalFrame

\* else { if (!sno_notany(s, delim)) return sno_rollback(s, start); }
Bal_notany ==
  /\ InLoop /\ At(s.view.end) # Top.open
  /\ \E r \in {sno_notany(Ptr(s), Ptr(Delim(Top.open, Top.close)))} :
       /\ ~r.oob
       /\ IF r.ret THEN BalGoto(232, r.sp[1])
          ELSE BalPop(236, FALSE, sno_rollback(236, r.sp, Top.start).sp[1])
  /\ BalFrame

\* The loop has ended: if (!sno_lit(s, close)) return sno_rollback(s, start);
\* s->view.begin = start; return true;
Bal_close ==
  /\ frames # <<>> /\ Top.at = 232
  /\ InMem(s.view.end)
  /\ At(s.view.end) = NUL \/ At(s.view.end) = Top.close
  /\ \E r \in {sno_lit(Ptr(s), Top.close)} :
       /\ ~r.oob
       /\ IF r.ret THEN BalPop(243, TRUE, [r.sp[1] EXCEPT !.view.begin = Top.start])
          ELSE BalPop(240, FALSE, sno_rollback(240, r.sp, Top.start).sp[1])
  /\ BalFrame

BalNext ==
  \/ Bal_open
  \/ Bal_recurse
  \/ Bal_returned
  \/ Bal_notany
  \/ Bal_close

\* The call runs on its caller's thread and is never suspended.
SpecBal == BalInit /\ [][BalNext]_vars /\ WF_vars(BalNext)

\* The deepest nesting of open delimiters in the text from offset p on, d
\* being open at p and mx the deepest seen so far.
RECURSIVE NestDepth(_, _, _, _, _)
NestDepth(p, d, mx, open, close) ==
  IF ~InMem(p) \/ AtEnd(p) THEN mx
  ELSE IF At(p) = open
       THEN NestDepth(p + 1, d + 1, IF d + 1 > mx THEN d + 1 ELSE mx, open, close)
  ELSE IF At(p) = close /\ d > 0 THEN NestDepth(p + 1, d - 1, mx, open, close)
  ELSE NestDepth(p + 1, d, mx, open, close)

\* Both delimiters of the call being run are characters, not '\0'.
NonNulDelimiters == pc.key[1] # NUL /\ pc.val[1] # NUL
\* The activations that have matched their opening delimiter.
Opened == {i \in 1..Len(frames) : frames[i].at # 230}

\* C35: sno_bal terminates for every finite subject, every starting cursor
\* and every pair of non-NUL delimiters: every pass through the loop and
\* every recursive call moves the cursor right by at least one character (a
\* recursive call always matches its open, a call that returns true has
\* consumed its open and its close), the cursor never leaves the text, and
\* the number of calls in progress that have matched an open, hence the
\* recursion depth, never exceeds the nesting depth of the open delimiters
\* of the subject.
C35_BalTerminates ==
  /\ NonNulDelimiters => <>(frames = <<>>)
  /\ [](NonNulDelimiters =>
          /\ Cardinality(Opened) <= NestDepth(0, 0, 0, pc.key[1], pc.val[1])
          /\ Len(frames) - 1 <= NestDepth(0, 0, 0, pc.key[1], pc.val[1])
          /\ s.view.end <= s.length)
  /\ [][NonNulDelimiters =>
          /\ (Top.at = 232 /\ Len(frames') = Len(frames) /\ Top'.at = 232)
                => s'.view.end = s.view.end + 1
          /\ (Top.at = 230 /\ Len(frames) > 1)
                => (Len(frames') = Len(frames) /\ s'.view.end = s.view.end + 1)
          /\ (Len(frames') < Len(frames) /\ ret')
                => s'.view.end >= Top.start + 2
          /\ (Len(frames') < Len(frames) /\ ~ret')
                => s'.view.end = Top.start]_vars

\* A call has just returned true on a group that holds a nested group.
C35_Witness ==
  /\ pc.prog = "sno_bal" /\ NonNulDelimiters /\ frames = <<>>
  /\ op = "sno_bal" /\ ret = TRUE /\ exit = 243
  /\ s.view.end >= s.view.begin + 4

\* C39: inside the loop of sno_bal the single-character step
\* sno_notany(s, {open, close}) can fail only at end-of-text: in every state
\* in which the step is reached the cursor is before end-of-text, the step
\* succeeds, the loop goes on, and exactly one character, neither open nor
\* close, is consumed.
C39_NotanyStepSucceeds ==
  [][(InLoop /\ At(s.view.end) # Top.open) =>
       /\ ~AtEnd(s.view.end)
       /\ Len(frames') = Len(frames) /\ Top'.at = 232
       /\ s'.view = [begin |-> s.view.end, end |-> s.view.end + 1]
       /\ At(s.view.end) \notin {Top.open, Top.close}]_vars

\* Inside a nested group, the step has just consumed a character that is
\* not a delimiter.
C39_Witness ==
  /\ Len(frames) >= 2 /\ Top.at = 232 /\ op = "sno_bal"
  /\ s.view.end = s.view.begin + 1
  /\ At(s.view.begin) \notin {Top.open, Top.close}

----------------------------------------------------------------------------
(* The earlier library version: sno_ws *)

TAB == "TAB"
\* " \t\r\n"
Whitespace == <<" ", TAB, CR, LF>>

\* Variant: s->view = saved;  (the previous view kept when nothing matches)
sno_ws_keepview(sp) ==
  IF sp = NULL THEN Fail(78, sp)
  ELSE LET r == sno_span(sp, Ptr(Whitespace)) IN
       IF r.oob THEN r
       ELSE IF r.ret THEN Ok(80, r.sp)
       ELSE Ok(83, Ptr([r.sp[1] EXCEPT !.view = sp[1].view]))

\* sno_span of that version (sno.c:37-46) is the sno_span of the current one.
sno_ws(sp) ==
  IF sp = NULL THEN Fail(78, sp)
  ELSE LET r == sno_span(sp, Ptr(Whitespace)) IN
       IF r.oob THEN r
       ELSE IF r.ret THEN Ok(80, r.sp)
       ELSE Ok(83, Ptr([r.sp[1] EXCEPT !.view.begin = r.sp[1].view.end]))

\* Subjects with and without whitespace at the start, inside and at the end.
WsTexts == { <<>>, <<"t">>, <<" ">>, <<" ", " ", "t">>, <<TAB, "t">>,
             <<"t", " ", TAB, "t">>, <<"t", CR, LF>> }
WsMemories == {Memory(x, [i \in 1..MaxOver |-> c]) : x \in WsTexts, c \in {NUL, " "}}

\* sno_subject_t s = {0}; sno_bind(&s, text);
WsInit ==
  /\ mem \in WsMemories
  /\ s = sno_bind(Ptr(Zero), Ptr(mem))[1]
  /\ op = "sno_bind" /\ exit = 98 /\ ret = TRUE /\ written = <<>>
  /\ pc = Idle
  /\ bufs = NoBufs
  /\ acc = <<>>
  /\ s2 = Zero
  /\ frames = <<>>

Ws_sno_ws == \E sp \in CtxArgs : Return("sno_ws", sno_ws(sp))
Ws_sno_lit == \E ch \in {"t", " ", TAB, NUL} : Do_sno_lit(Ptr(s), ch)
Ws_sno_len == \E n \in 0..2 : Do_sno_len(Ptr(s), n)

WsNext ==
  \/ Ws_sno_ws
  \/ Ws_sno_lit
  \/ Ws_sno_len

SpecWs == WsInit /\ [][WsNext]_vars

IsWhitespace(ch) == ch \in {" ", TAB, CR, LF}

\* C38: sno_ws(s) of the earlier library version returns true in every state
\* of a non-null context: when whitespace (space, tab, CR, LF) starts at the
\* cursor it consumes the maximal run and the view spans it; otherwise the
\* cursor is unchanged and the view becomes the empty span
\* [cursor, cursor).  The mark is not touched.
C38_WsAlwaysSucceeds ==
  [][op' = "sno_ws" =>
       (Return("sno_ws", sno_ws(Ptr(s))) =>
          LET c == s.view.end
              v == s'.view IN
          /\ ret'
          /\ s'.mark = s.mark
          /\ IF IsWhitespace(At(c))
             THEN /\ v.begin = c /\ v.end > c
                  /\ \A i \in c..(v.end - 1) : IsWhitespace(At(i))
                  /\ ~IsWhitespace(At(v.end))
             ELSE v = [begin |-> c, end |-> c])]_vars

\* sno_ws has just succeeded on no whitespace, after an earlier match: the
\* view is the empty span at a cursor past the start.
C38_Witness ==
  /\ op = "sno_ws" /\ ret = TRUE /\ exit = 83
  /\ s.view.begin = s.view.end /\ s.view.end > 0 /\ s.view.end < s.length

----------------------------------------------------------------------------
(* Two parsing contexts on one text *)

\* Which context made the last call: 0 none yet, 1 the first (s), 2 the
\* second (s2).
Acting(k) == [prog |-> "contexts", step |-> k, key |-> <<>>, val |-> <<>>, cap |-> 0]

\* The calls a caller makes on the context x, each with its outcome.  A call
\* reads its context and the text and writes its context and its own
\* destination buffer; sno.c has no file-scope or static object.
Calls(x) ==
  LET sp == Ptr(x)
      Out(o, r) == [o |-> o, r |-> r] IN
  {Out("sno_reset", sno_reset(sp)), Out("sno_mark", sno_mark(sp)),
   Out("sno_rem", sno_rem(sp)), Out("sno_bal", sno_bal(sp, "(", ")")),
   Out("sno_span", sno_span(sp, Ptr(<<"a">>))),
   Out("sno_cap", sno_cap(sp, Ptr("buf"), MaxLen + 4)),
   Out("sno_lit", sno_lit(sp, "(")), Out("sno_len", sno_len(sp, 1))}

TwoTexts == {<<"a", "(", ")", "a">>, <<"(", "(", ")", ")">>}

\* sno_subject_t a = {0}, b = {0}; sno_bind(&a, text); sno_bind(&b, text);
TwoInit ==
  /\ mem \in {Memory(x, [i \in 1..MaxOver |-> NUL]) : x \in TwoTexts}
  /\ s = sno_bind(Ptr(Zero), Ptr(mem))[1]
  /\ s2 = sno_bind(Ptr(Zero), Ptr(mem))[1]
  /\ op = "sno_bind" /\ exit = 98 /\ ret = TRUE /\ written = <<>>
  /\ pc = Acting(0)
  /\ bufs = NoBufs
  /\ acc = <<>>
  /\ frames = <<>>

\* Variant: one file-scope context, the one bound first, used by every call.
TwoStep_shared(k) ==
  \E c \in Calls(s) :
    /\ ~c.r.oob
    /\ op' = c.o /\ exit' = c.r.exit /\ ret' = c.r.ret /\ written' = c.r.out
    /\ s' = c.r.sp[1] /\ s2' = s2
    /\ pc' = Acting(k)
    /\ UNCHANGED <<mem, bufs, acc, frames>>

\* The context k makes a call: f(&a, ...) or f(&b, ...).
TwoStep(k) ==
  \E c \in Calls(IF k = 1 THEN s ELSE s2) :
    /\ ~c.r.oob
    /\ op' = c.o /\ exit' = c.r.exit /\ ret' = c.r.ret /\ written' = c.r.out
    /\ IF k = 1 THEN s' = c.r.sp[1] /\ s2' = s2
                ELSE s2' = c.r.sp[1] /\ s' = s
    /\ pc' = Acting(k)
    /\ UNCHANGED <<mem, bufs, acc, frames>>

Two_first == TwoStep(1)
Two_second == TwoStep(2)

TwoNext ==
  \/ Two_first
  \/ Two_second

SpecTwo == TwoInit /\ [][TwoNext]_vars

\* The call o on a context in state x, made with no other context in
\* existence, can return r, store w and leave the context in state y.
Alone(x, o, y, r, w) ==
  \E c \in Calls(x) :
    ~c.r.oob /\ c.o = o /\ c.r.sp[1] = y /\ c.r.ret = r /\ c.r.out = w

====
